---- MODULE Spec2Model ----
(***************************************************************************)
(* Model of the TodoApp frontend: the TodoApp component (App.tsx), its     *)
(* fetch client (api), the CalendarView date grid and the TaskCard         *)
(* substep progress.  The backend is an opaque HTTP collaborator: every    *)
(* request in flight completes either with a response drawn from a small   *)
(* set or with a failure (fetch rejects / response.json() rejects).        *)
(***************************************************************************)
EXTENDS Integers, Sequences, FiniteSets, Bags, TLC

VARIABLES
    currentView,         \* App.tsx:25  'tasks' | 'calendar' | 'diary'
    selectedFolder,      \* App.tsx:26  FolderType | null   (None or <<folder>>)
    folders,             \* App.tsx:27
    tasks,               \* App.tsx:28
    diaryEntries,        \* App.tsx:29
    expandedTasks,       \* App.tsx:30
    loading,             \* App.tsx:31
    backendStatus,       \* App.tsx:32  'checking' | 'connected' | 'error'
    showNewTaskModal,    \* App.tsx:33
    showNewFolderModal,  \* App.tsx:34
    selectedDate,        \* App.tsx:35  (setSelectedDate is never called)
    newTask,             \* App.tsx:38
    newFolder,           \* App.tsx:45
    inflight,            \* bag of fetch requests that have not completed yet
    lastEvent,           \* the last handler step: what ran and how it ended
    tasksFrom,           \* the getTasks request whose response setTasks stored last
    currentDate,         \* CalendarView: useState(new Date()), as a local civil date
    now,                 \* CalendarView: the local civil date new Date() gives
    tzOffset,            \* CalendarView: the browser's UTC offset in hours (east positive)
    calTasks,            \* CalendarView: the tasks prop
    cardTask,            \* TaskCard: the task prop
    isExpanded,          \* TaskCard: the isExpanded prop
    diaryVersion,        \* DiaryView: which of the file's two versions is mounted
    entriesProp,         \* DiaryView: the diaryEntries prop
    propCall,            \* DiaryView: the last call of onNewEntry / onUpdateEntry
    currentEntry,        \* DiaryView (modal version), DiaryView.tsx:281
    editingEntry,        \* DiaryView (modal version), DiaryView.tsx:282
    editContent,         \* DiaryView (modal version), DiaryView.tsx:283
    showNewEntryModal,   \* DiaryView (modal version), DiaryView.tsx:284
    showEditModal,       \* DiaryView (modal version), DiaryView.tsx:285
    currentEntryInline,  \* DiaryView (inline editor version), DiaryView.tsx:18
    editingId,           \* DiaryView (inline editor version), DiaryView.tsx:19
    editContentInline    \* DiaryView (inline editor version), DiaryView.tsx:20

appVars == <<currentView, selectedFolder, folders, tasks, diaryEntries, expandedTasks,
             loading, backendStatus, showNewTaskModal, showNewFolderModal, selectedDate,
             newTask, newFolder, inflight, lastEvent, tasksFrom>>
calVars == <<currentDate, now, tzOffset, calTasks>>
cardVars == <<cardTask, isExpanded>>
diaryModalVars == <<currentEntry, editingEntry, editContent, showNewEntryModal, showEditModal>>
diaryInlineVars == <<currentEntryInline, editingId, editContentInline>>
diaryVars == <<diaryVersion, entriesProp, propCall, diaryModalVars, diaryInlineVars>>
vars == <<appVars, calVars, cardVars, diaryVars>>

---------------------------------------------------------------------------
(* Bounds of the model *)

MaxInFlight == 2      \* at most this many requests are in flight at once
MaxFolders == 2       \* the backend knows folders with ids 0 .. MaxFolders-1
MaxTasks == 2         \* the backend knows tasks with ids 1 .. MaxTasks
MaxEntries == 1       \* the backend knows diary entries with ids 1 .. MaxEntries
YearSpan == 1         \* the calendar is used in the years 2024 .. 2024 + YearSpan
MaxSubsteps == 3      \* a task has at most this many substeps
MaxText == 2          \* the text typed into a diary editor has at most this many characters

---------------------------------------------------------------------------
(* Values *)

\* null / undefined, and a present value: T | null is None or <<t>>
None == <<>>
Some(x) == <<x>>

Statuses == {"pending", "in_progress", "completed"}
Views == {"tasks", "calendar", "diary"}
Titles == {"", "a"}
FolderNames == {"", "n"}
Contents == {"x"}

Folder(i) == [id |-> i, name |-> "n"]
FolderIds == 0 .. (MaxFolders - 1)
TaskIds == 1 .. MaxTasks
EntryIds == 1 .. MaxEntries

\* Response bodies of the list endpoints: the backend holds either nothing or all
\* of its records; task i is stored with status StoredStatus(i).
StoredStatus(i) ==
    IF i % 3 = 1 THEN "pending" ELSE IF i % 3 = 2 THEN "in_progress" ELSE "completed"
FolderResponses == {<<>>, [i \in 1 .. MaxFolders |-> Folder(i - 1)]}
TaskResponses == {<<>>, [i \in 1 .. MaxTasks |-> [id |-> i, status |-> StoredStatus(i)]]}
DiaryResponses == {<<>>, [i \in 1 .. MaxEntries |-> [id |-> i, content |-> "x"]]}

DefaultNewTask ==
    [title |-> "", description |-> "", priority |-> 1, due_date |-> "",
     is_calendar_event |-> FALSE]
DefaultNewFolder == [name |-> "", color |-> "#3B82F6"]

Range(s) == {s[i] : i \in DOMAIN s}

---------------------------------------------------------------------------
(* The api client: the request each call puts on the wire *)

\* JavaScript truthiness of number | null | undefined
TruthyNum(x) == x # None /\ x[1] # 0

\* selectedFolder?.id || null
FolderIdOrNull(sel) == IF sel # None /\ sel[1].id # 0 THEN Some(sel[1].id) ELSE None

\* selectedFolder?.id
FolderIdOpt(sel) == IF sel # None THEN Some(sel[1].id) ELSE None

apiHealthCheck == [kind |-> "healthCheck"]

apiGetTasks(folderId) ==
    [kind |-> "getTasks", folder_id |-> IF TruthyNum(folderId) THEN folderId ELSE None]

apiGetFolders == [kind |-> "getFolders"]

apiGetDiaryEntries(entryDate, folderId) ==
    [kind |-> "getDiaryEntries",
     entry_date |-> entryDate,
     folder_id |-> IF TruthyNum(folderId) THEN folderId ELSE None]

\* The write requests also carry what the handler that awaits them holds in its
\* closure: the clicked task, and the loader (loadTasks / loadDiaryEntries of the render
\* the handler belongs to) it calls on success, given as the request that loader issues.
apiCreateTask(taskData, reload) ==
    [kind |-> "createTask", body |-> taskData, reload |-> reload]

apiCreateFolder(folderData) == [kind |-> "createFolder", body |-> folderData]

apiCreateDiaryEntry(entryData, reload) ==
    [kind |-> "createDiaryEntry", body |-> entryData, reload |-> reload]

apiUpdateTask(taskId, updates, task, reload) ==
    [kind |-> "updateTask", id |-> taskId, body |-> updates, task |-> task,
     reload |-> reload]

\* The status codes a response may carry.  fetch resolves for every status code, and
\* no api member looks at response.ok or response.status before response.json().
HttpStatuses == {200, 500}

\* a response with a JSON body: the api call returns response.json() whatever the
\* status, so the caller's await resolves; a 2xx status is the only success
IsSuccessStatus(status) == status \div 100 = 2

\* how the await of an api call that got a JSON response ends, seen from the handler
\* ("resolved"), and what the backend answered ("ok" for 2xx, else "error_status")
Outcome(status) == IF IsSuccessStatus(status) THEN "ok" ELSE "error_status"

\* the members of the api object; any other property of it is undefined
apiMembers ==
    {"healthCheck", "getTasks", "createTask", "updateTask", "getFolders", "createFolder",
     "getDiaryEntries", "createDiaryEntry"}

---------------------------------------------------------------------------
(* JavaScript Date, for a browser at a fixed UTC offset: a Date is kept as its local
   civil date [y, m, d] with m = 0 .. 11; its time value counts days since 1970-01-01 *)

Years == 2024 .. (2024 + YearSpan)

InLeapYear(y) == (y % 4 = 0 /\ y % 100 # 0) \/ y % 400 = 0

\* DayFromYear of ECMAScript: the day number of January 1st of year y
DayFromYear(y) ==
    365 * (y - 1970) + ((y - 1969) \div 4) - ((y - 1901) \div 100) + ((y - 1601) \div 400)

\* days before the first of month m (0-based) in a year
DaysBeforeMonth(y, m) ==
    LET common == <<0, 31, 59, 90, 120, 151, 181, 212, 243, 273, 304, 334, 365>>
    IN common[m + 1] + (IF m >= 2 /\ InLeapYear(y) THEN 1 ELSE 0)

\* MakeDay of ECMAScript: months outside 0 .. 11 carry into the year, the day is an
\* offset from the first of the month (so day 0 is the last day of the month before)
MakeDay(year, month, day) ==
    LET ym == year + (month \div 12)
        mn == month % 12
    IN DayFromYear(ym) + DaysBeforeMonth(ym, mn) + day - 1

\* the local civil date of a day number
CivilFromDay(n) ==
    LET y == CHOOSE yy \in (2024 - 1) .. (2024 + YearSpan + 1) :
                 DayFromYear(yy) <= n /\ n < DayFromYear(yy + 1)
        k == n - DayFromYear(y)
        m == CHOOSE mm \in 0 .. 11 :
                 DaysBeforeMonth(y, mm) <= k /\ k < DaysBeforeMonth(y, mm + 1)
    IN [y |-> y, m |-> m, d |-> k - DaysBeforeMonth(y, m) + 1]

\* new Date(year, month, day)
NewDate(year, month, day) == CivilFromDay(MakeDay(year, month, day))

\* Date.prototype.getDay: 1970-01-01 was a Thursday (4)
GetDay(date) == (MakeDay(date.y, date.m, date.d) + 4) % 7

\* date.toISOString().split('T')[0] of a Date at local midnight: the UTC calendar date
\* of that instant, written year-month-day with the month counted from 1
ISODateString(date, tz) ==
    LET utcHours == MakeDay(date.y, date.m, date.d) * 24 - tz
        utc == CivilFromDay(utcHours \div 24)
    IN <<utc.y, utc.m + 1, utc.d>>

---------------------------------------------------------------------------
(* CalendarView *)

\* the date part (first ten characters) of an ISO due_date string
DuePrefix(due) == <<due.y, due.m + 1, due.d>>

\* UTC offsets of the browser, hours east of Greenwich
TzOffsets == {-5, 0, 2}

\* due dates the tasks prop may carry: none, or an ISO string of one of these days
DueDates == {[y |-> 2024, m |-> 1, d |-> 29], [y |-> 2024, m |-> 2, d |-> 1]}
CalendarTaskLists ==
    {<<>>} \cup
    {<<[id |-> 1, status |-> "pending", due_date |-> None],
       [id |-> 2, status |-> "completed", due_date |-> Some(due)]>> : due \in DueDates}

\* new Date(year, month + 1, 0).getDate() of the wrong month
daysInMonthOfPrevious(date) == NewDate(date.y, date.m, 0).d

\* lastDay.getDate(), with lastDay = new Date(year, month + 1, 0)
daysInMonth(date) == NewDate(date.y, date.m + 1, 0).d

\* firstDay.getDay(), with firstDay = new Date(year, month, 1)
startingDayOfWeek(date) == GetDay(NewDate(date.y, date.m, 1))

\* the second loop of getDaysInMonth: push new Date(year, month, day) for day = from .. to
RECURSIVE PushDays(_, _, _, _)
PushDays(days, date, from, to) ==
    IF from > to THEN days
    ELSE PushDays(Append(days, Some(NewDate(date.y, date.m, from))), date, from + 1, to)

\* the first loop of getDaysInMonth: push null n times
RECURSIVE PushNulls(_, _)
PushNulls(days, n) == IF n <= 0 THEN days ELSE PushNulls(Append(days, None), n - 1)

getDaysInMonth(date) ==
    PushDays(PushNulls(<<>>, startingDayOfWeek(date)), date, 1, daysInMonth(date))

\* getTasksForDate(date) for a day cell, in a browser at UTC offset tz: the tasks
\* whose due_date starts with the cell's ISO date string
getTasksForDate(date, tz, tasksProp) ==
    SelectSeq(tasksProp,
              LAMBDA task : task.due_date # None
                            /\ DuePrefix(task.due_date[1]) = ISODateString(date, tz))

\* the cells of the grid: days.map((day, index) => ..)
days == getDaysInMonth(currentDate)
tasksForDay(day) ==
    IF day # None THEN getTasksForDate(day[1], tzOffset, calTasks) ELSE <<>>

\* the days new Date() may fall on: the first and the last days of every month
TodayDays == {1, 29, 30, 31}
Todays ==
    {date \in {[y |-> y, m |-> m, d |-> d] : y \in Years, m \in 0 .. 11, d \in TodayDays} :
        NewDate(date.y, date.m, date.d) = date}

InitCalendar ==
    /\ now \in Todays
    /\ currentDate = now
    /\ tzOffset \in TzOffsets
    /\ calTasks \in CalendarTaskLists

\* a ChevronLeft that keeps the day of the month: new Date(y, m - 1, getDate())
previousMonthKeepingDay ==
    /\ NewDate(currentDate.y, currentDate.m - 1, currentDate.d).y \in Years
    /\ currentDate' = NewDate(currentDate.y, currentDate.m - 1, currentDate.d)
    /\ UNCHANGED <<now, tzOffset, calTasks>>
    /\ UNCHANGED <<appVars, cardVars, diaryVars>>

\* ChevronLeft: setCurrentDate(new Date(getFullYear(), getMonth() - 1))
previousMonth ==
    /\ NewDate(currentDate.y, currentDate.m - 1, 1).y \in Years
    /\ currentDate' = NewDate(currentDate.y, currentDate.m - 1, 1)
    /\ UNCHANGED <<now, tzOffset, calTasks>>
    /\ UNCHANGED <<appVars, cardVars, diaryVars>>

\* ChevronRight: setCurrentDate(new Date(getFullYear(), getMonth() + 1))
nextMonth ==
    /\ NewDate(currentDate.y, currentDate.m + 1, 1).y \in Years
    /\ currentDate' = NewDate(currentDate.y, currentDate.m + 1, 1)
    /\ UNCHANGED <<now, tzOffset, calTasks>>
    /\ UNCHANGED <<appVars, cardVars, diaryVars>>

\* Today: setCurrentDate(new Date())
goToToday ==
    /\ currentDate' = now
    /\ UNCHANGED <<now, tzOffset, calTasks>>
    /\ UNCHANGED <<appVars, cardVars, diaryVars>>

---------------------------------------------------------------------------
(* TaskCard *)

\* a substeps prop: undefined, or a list of substeps
SubstepLists ==
    {None} \cup
    {Some([i \in DOMAIN done |-> [id |-> i, is_completed |-> done[i]]]) :
        done \in UNION {[1 .. n -> BOOLEAN] : n \in 0 .. MaxSubsteps}}

CardTasks ==
    {[id |-> id, status |-> status, substeps |-> substeps] :
        id \in TaskIds, status \in Statuses, substeps \in SubstepLists}

\* task.substeps?.filter(s => s.is_completed).length || 0
completedSubsteps(task) ==
    IF task.substeps = None THEN 0
    ELSE Len(SelectSeq(task.substeps[1], LAMBDA s : s.is_completed))

\* a total that counts only the substeps still open
totalSubstepsOpenOnly(task) ==
    IF task.substeps = None THEN 0
    ELSE Len(SelectSeq(task.substeps[1], LAMBDA s : ~s.is_completed))

\* task.substeps?.length || 0
totalSubsteps(task) ==
    IF task.substeps = None THEN 0 ELSE Len(task.substeps[1])

\* {totalSubsteps > 0 && (..)}: the progress bar and the 'completed/total' label; the
\* width (completedSubsteps / totalSubsteps) * 100 is kept as its integer part
ProgressBar(task) ==
    IF totalSubsteps(task) > 0
    THEN Some([width |-> (completedSubsteps(task) * 100) \div totalSubsteps(task),
               label |-> <<completedSubsteps(task), totalSubsteps(task)>>])
    ELSE None

\* {totalSubsteps > 0 && (<button ..>)}: the expand chevron
ChevronShown(task) == totalSubsteps(task) > 0

\* a panel that only looks at isExpanded
SubstepsPanelShownWhenExpanded(task, expanded) == expanded

\* {isExpanded && task.substeps && task.substeps.length > 0 && (..)}
SubstepsPanelShown(task, expanded) ==
    /\ expanded
    /\ task.substeps # None
    /\ Len(task.substeps[1]) > 0

\* a card is mounted collapsed: expandedTasks starts as the empty set
InitCard ==
    /\ cardTask \in CardTasks
    /\ isExpanded = FALSE

\* click on the title: onToggleExpansion(task.id); the parent flips the id's membership
\* in expandedTasks and renders the card with the new isExpanded
clickTitle ==
    /\ isExpanded' = ~isExpanded
    /\ UNCHANGED cardTask
    /\ UNCHANGED <<appVars, calVars, diaryVars>>

\* click on the chevron, which is rendered for tasks with substeps only
clickChevron ==
    /\ ChevronShown(cardTask)
    /\ isExpanded' = ~isExpanded
    /\ UNCHANGED cardTask
    /\ UNCHANGED <<appVars, calVars, diaryVars>>

\* click on the status icon: onToggleStatus(task); the parent renders the card with
\* the task's status flipped
clickStatusIcon ==
    /\ cardTask' =
          [cardTask EXCEPT
              !.status = IF cardTask.status = "completed" THEN "pending" ELSE "completed"]
    /\ UNCHANGED isExpanded
    /\ UNCHANGED <<appVars, calVars, diaryVars>>

\* click on the checkbox of substep i in the panel: the input is readOnly and has no
\* onChange, so no callback runs and the card is rendered as before
clickSubstepCheckbox(i) ==
    /\ SubstepsPanelShown(cardTask, isExpanded)
    /\ i \in DOMAIN cardTask.substeps[1]
    /\ UNCHANGED <<cardTask, isExpanded>>
    /\ UNCHANGED <<appVars, calVars, diaryVars>>

---------------------------------------------------------------------------
(* DiaryView: the text of the editors *)

\* A text is a sequence of characters; " " stands for any whitespace the user types,
\* "\n" is the line break the component itself puts into a text.
Chars == {" ", "a"}
Whitespace == {" ", "\n"}

\* the values an editor's onChange may deliver
Texts == UNION {[1 .. n -> Chars] : n \in 0 .. MaxText}

\* String.prototype.trim: the text without its leading and its trailing whitespace
RECURSIVE TrimStart(_)
TrimStart(s) ==
    IF s # <<>> /\ Head(s) \in Whitespace THEN TrimStart(Tail(s)) ELSE s

RECURSIVE TrimEnd(_)
TrimEnd(s) ==
    IF s # <<>> /\ s[Len(s)] \in Whitespace THEN TrimEnd(SubSeq(s, 1, Len(s) - 1)) ELSE s

\* a trim that leaves the text as it is
TrimNothing(s) == s

Trim(s) == TrimEnd(TrimStart(s))

\* the entries the parent may pass: without and with a title, with blank content
DiaryEntry(id, title, content) == [id |-> id, title |-> title, content |-> content]
DiaryViewEntryLists ==
    {<<>>,
     <<DiaryEntry(1, <<>>, <<"a">>), DiaryEntry(2, <<"a">>, <<"a", " ">>),
       DiaryEntry(3, <<>>, <<" ">>)>>}

\* the calls of the callback props
onNewEntry(content) == [fn |-> "onNewEntry", content |-> content]
onUpdateEntry(id, content) == [fn |-> "onUpdateEntry", id |-> id, content |-> content]

\* DiaryView is not mounted
IdleDiary ==
    /\ diaryVersion = "inline"
    /\ entriesProp = <<>>
    /\ propCall = None
    /\ currentEntry = <<>>
    /\ editingEntry = None
    /\ editContent = <<>>
    /\ showNewEntryModal = FALSE
    /\ showEditModal = FALSE
    /\ currentEntryInline = <<>>
    /\ editingId = None
    /\ editContentInline = <<>>

---------------------------------------------------------------------------
(* DiaryView, modal version (DiaryView.tsx:208-1053).  A handler may be called in any
   state of the component; the buttons and the keyboard shortcut call it in the states
   in which they are rendered and enabled. *)

\* what the handlers of the modal version leave alone
diaryModalFrame == <<appVars, calVars, cardVars, diaryVersion, entriesProp, diaryInlineVars>>

\* 'Title\n\n', the text handleShowNewEntryModal puts into the editor ('Title' as "a")
TitlePlaceholder == <<"a", "\n", "\n">>

\* '\n\n---\n\n', the text handleAddSeparator appends (one break on each side of "-")
Separator == <<"\n", "-", "\n">>

\* a buffer that holds the entry's content only
combinedTextContentOnly(entry) == entry.content

\* entry.title ? `${entry.title}\n${entry.content}` : entry.content
combinedText(entry) ==
    IF entry.title # <<>> THEN entry.title \o <<"\n">> \o entry.content ELSE entry.content

handleSaveEntry ==
    /\ diaryVersion = "modal"
    /\ LET trimmed == Trim(currentEntry)
       IN IF trimmed # <<>>
          THEN /\ propCall' = Some(onNewEntry(trimmed))
               /\ currentEntry' = <<>>
               /\ showNewEntryModal' = FALSE
               /\ UNCHANGED <<editingEntry, editContent, showEditModal>>
          ELSE UNCHANGED <<propCall, diaryModalVars>>
    /\ UNCHANGED diaryModalFrame

handleSaveEdit ==
    /\ diaryVersion = "modal"
    /\ LET trimmed == Trim(editContent)
       IN IF editingEntry # None /\ trimmed # <<>>
          THEN /\ propCall' = Some(onUpdateEntry(editingEntry[1].id, trimmed))
               /\ showEditModal' = FALSE
               /\ editingEntry' = None
               /\ editContent' = <<>>
               /\ UNCHANGED <<currentEntry, showNewEntryModal>>
          ELSE UNCHANGED <<propCall, diaryModalVars>>
    /\ UNCHANGED diaryModalFrame

handleShowNewEntryModal ==
    /\ diaryVersion = "modal"
    /\ currentEntry' = TitlePlaceholder
    /\ showNewEntryModal' = TRUE
    /\ UNCHANGED <<propCall, editingEntry, editContent, showEditModal>>
    /\ UNCHANGED diaryModalFrame

handleCancelNewEntry ==
    /\ diaryVersion = "modal"
    /\ showNewEntryModal' = FALSE
    /\ currentEntry' = <<>>
    /\ UNCHANGED <<propCall, editingEntry, editContent, showEditModal>>
    /\ UNCHANGED diaryModalFrame

handleEditEntry(entry) ==
    /\ diaryVersion = "modal"
    /\ entry \in Range(entriesProp)
    /\ editingEntry' = Some(entry)
    /\ editContent' = combinedText(entry)
    /\ showEditModal' = TRUE
    /\ UNCHANGED <<propCall, currentEntry, showNewEntryModal>>
    /\ UNCHANGED diaryModalFrame

\* a cancel that closes the modal and keeps the buffer
handleCancelEditKeepingBuffer ==
    /\ diaryVersion = "modal"
    /\ showEditModal' = FALSE
    /\ editingEntry' = None
    /\ UNCHANGED <<propCall, editContent, currentEntry, showNewEntryModal>>
    /\ UNCHANGED diaryModalFrame

handleCancelEdit ==
    /\ diaryVersion = "modal"
    /\ showEditModal' = FALSE
    /\ editingEntry' = None
    /\ editContent' = <<>>
    /\ UNCHANGED <<propCall, currentEntry, showNewEntryModal>>
    /\ UNCHANGED diaryModalFrame

\* setCurrentEntry(value || ''): an undefined value is the empty text
handleCurrentEntryChange(value) ==
    /\ diaryVersion = "modal"
    /\ currentEntry' = value
    /\ UNCHANGED <<propCall, editingEntry, editContent, showNewEntryModal, showEditModal>>
    /\ UNCHANGED diaryModalFrame

\* setEditContent(value || '')
handleEditContentChange(value) ==
    /\ diaryVersion = "modal"
    /\ editContent' = value
    /\ UNCHANGED <<propCall, currentEntry, editingEntry, showNewEntryModal, showEditModal>>
    /\ UNCHANGED diaryModalFrame

\* setCurrentEntry(prev => prev + '\n\n---\n\n'), on a text the user typed
handleAddSeparator ==
    /\ diaryVersion = "modal"
    /\ Len(currentEntry) <= MaxText
    /\ currentEntry' = currentEntry \o Separator
    /\ UNCHANGED <<propCall, editingEntry, editContent, showNewEntryModal, showEditModal>>
    /\ UNCHANGED diaryModalFrame

\* the document's keydown listener for Ctrl+Enter / Cmd+Enter, which the effect
\* registers while one of the two modals is open
handleKeyDown ==
    /\ showNewEntryModal \/ showEditModal
    /\ IF showNewEntryModal /\ Trim(currentEntry) # <<>>
       THEN handleSaveEntry
       ELSE IF showEditModal /\ Trim(editContent) # <<>>
            THEN handleSaveEdit
            ELSE /\ diaryVersion = "modal"
                 /\ UNCHANGED <<propCall, diaryModalVars>>
                 /\ UNCHANGED diaryModalFrame

---------------------------------------------------------------------------
(* DiaryView, inline version (DiaryView.tsx:1-207).  Its state and handlers carry the
   suffix Inline where the modal version has the same name. *)

\* what the handlers of the inline version leave alone
diaryInlineFrame == <<appVars, calVars, cardVars, diaryVersion, entriesProp, diaryModalVars>>

handleSaveEntryInline ==
    /\ diaryVersion = "inline"
    /\ IF Trim(currentEntryInline) # <<>>
       THEN /\ propCall' = Some(onNewEntry(Trim(currentEntryInline)))
            /\ currentEntryInline' = <<>>
            /\ UNCHANGED <<editingId, editContentInline>>
       ELSE UNCHANGED <<propCall, diaryInlineVars>>
    /\ UNCHANGED diaryInlineFrame

handleEditEntryInline(entry) ==
    /\ diaryVersion = "inline"
    /\ entry \in Range(entriesProp)
    /\ editingId' = Some(entry.id)
    /\ editContentInline' = entry.content
    /\ UNCHANGED <<propCall, currentEntryInline>>
    /\ UNCHANGED diaryInlineFrame

\* App passes onUpdateEntry, so the handler's test of the prop is true
handleSaveEditInline(id) ==
    /\ diaryVersion = "inline"
    /\ IF Trim(editContentInline) # <<>>
       THEN propCall' = Some(onUpdateEntry(id, Trim(editContentInline)))
       ELSE UNCHANGED propCall
    /\ editingId' = None
    /\ editContentInline' = <<>>
    /\ UNCHANGED currentEntryInline
    /\ UNCHANGED diaryInlineFrame

handleCancelEditInline ==
    /\ diaryVersion = "inline"
    /\ editingId' = None
    /\ editContentInline' = <<>>
    /\ UNCHANGED <<propCall, currentEntryInline>>
    /\ UNCHANGED diaryInlineFrame

\* Ctrl+Enter / Cmd+Enter in the new-entry textarea
handleKeyDownInline ==
    /\ diaryVersion = "inline"
    /\ handleSaveEntryInline

\* onChange of the new-entry textarea
setCurrentEntryInline(value) ==
    /\ diaryVersion = "inline"
    /\ currentEntryInline' = value
    /\ UNCHANGED <<propCall, editingId, editContentInline>>
    /\ UNCHANGED diaryInlineFrame

\* onChange of the textarea of the entry being edited
setEditContentInline(value) ==
    /\ diaryVersion = "inline"
    /\ editingId # None
    /\ editContentInline' = value
    /\ UNCHANGED <<propCall, editingId, currentEntryInline>>
    /\ UNCHANGED diaryInlineFrame

---------------------------------------------------------------------------
(* TodoApp: data loading *)

RECURSIVE BagOfSeq(_)
BagOfSeq(s) == IF s = <<>> THEN EmptyBag ELSE SetToBag({Head(s)}) (+) BagOfSeq(Tail(s))

\* request r has completed, and its continuation has issued the requests `sent`
Complete(r, sent) == (inflight (-) SetToBag({r})) (+) BagOfSeq(sent)

\* a handler may issue n more requests (bound of the model)
Fits(n) == BagCardinality(inflight) + n <= MaxInFlight

Ev(op, outcome) == [op |-> op, outcome |-> outcome]

\* the request loadFolders issues
loadFolders == apiGetFolders

\* the request issued by the loadTasks of a render in which selectedFolder was sel
loadTasks(sel) == apiGetTasks(FolderIdOrNull(sel))

\* the request issued by the loadDiaryEntries of a render with selectedDate, selectedFolder
loadDiaryEntries(date, sel) == apiGetDiaryEntries(date, FolderIdOpt(sel))

\* the requests issued by the view-loading effect after a render with these values
ViewEffect(view, sel, date, status) ==
    IF status = "connected"
    THEN IF view = "tasks" THEN <<loadTasks(sel)>>
         ELSE IF view = "diary" THEN <<loadDiaryEntries(date, sel)>>
         ELSE <<>>
    ELSE <<>>

\* loadTasks and loadDiaryEntries begin with setLoading(true)
LoadingAfter(sent) == IF sent # <<>> THEN TRUE ELSE loading

\* what no handler of TodoApp touches: the state of the child components, and the
\* record of where the tasks list came from, which only setTasks(tasksData) renews
appFrame == <<calVars, cardVars, diaryVars>>

InitApp ==
    /\ currentView = "tasks"
    /\ selectedFolder = None
    /\ folders = <<>>
    /\ tasks = <<>>
    /\ diaryEntries = <<>>
    /\ expandedTasks = {}
    /\ loading = FALSE
    /\ backendStatus = "checking"
    /\ showNewTaskModal = FALSE
    /\ showNewFolderModal = FALSE
    /\ selectedDate = None
    /\ newTask = DefaultNewTask
    /\ newFolder = DefaultNewFolder
    /\ inflight = SetToBag({apiHealthCheck})
    /\ lastEvent = Ev("mount", "ui")
    /\ tasksFrom = None

\* testConnection: api.healthCheck() resolved, with a response of any status code
testConnectionOk ==
    /\ BagIn(apiHealthCheck, inflight)
    /\ \E status \in HttpStatuses : lastEvent' = Ev("testConnection", Outcome(status))
    /\ LET effect == ViewEffect(currentView, selectedFolder, selectedDate, "connected")
           sent == <<loadFolders>> \o effect
       IN /\ BagCardinality(inflight) - 1 + Len(sent) <= MaxInFlight
          /\ backendStatus' = "connected"
          /\ loading' = LoadingAfter(effect)
          /\ inflight' = Complete(apiHealthCheck, sent)
    /\ UNCHANGED <<currentView, selectedFolder, folders, tasks, diaryEntries, expandedTasks,
                   showNewTaskModal, showNewFolderModal, selectedDate, newTask, newFolder>>
    /\ UNCHANGED <<tasksFrom, appFrame>>

\* testConnection: api.healthCheck() rejected
testConnectionFail ==
    /\ BagIn(apiHealthCheck, inflight)
    /\ backendStatus' = "error"
    /\ inflight' = Complete(apiHealthCheck, <<>>)
    /\ lastEvent' = Ev("testConnection", "fail")
    /\ UNCHANGED <<currentView, selectedFolder, folders, tasks, diaryEntries, expandedTasks,
                   loading, showNewTaskModal, showNewFolderModal, selectedDate, newTask,
                   newFolder>>
    /\ UNCHANGED <<tasksFrom, appFrame>>

\* loadFolders: api.getFolders() resolved with foldersData
loadFoldersOk(foldersData) ==
    /\ BagIn(apiGetFolders, inflight)
    /\ folders' = foldersData
    /\ inflight' = Complete(apiGetFolders, <<>>)
    /\ lastEvent' = Ev("loadFolders", "ok")
    /\ UNCHANGED <<currentView, selectedFolder, tasks, diaryEntries, expandedTasks, loading,
                   backendStatus, showNewTaskModal, showNewFolderModal, selectedDate,
                   newTask, newFolder>>
    /\ UNCHANGED <<tasksFrom, appFrame>>

\* loadFolders: api.getFolders() rejected
loadFoldersFail ==
    /\ BagIn(apiGetFolders, inflight)
    /\ inflight' = Complete(apiGetFolders, <<>>)
    /\ lastEvent' = Ev("loadFolders", "fail")
    /\ UNCHANGED <<currentView, selectedFolder, folders, tasks, diaryEntries, expandedTasks,
                   loading, backendStatus, showNewTaskModal, showNewFolderModal,
                   selectedDate, newTask, newFolder>>
    /\ UNCHANGED <<tasksFrom, appFrame>>

\* loadTasks: api.getTasks(..) resolved with tasksData; finally setLoading(false)
loadTasksOk(r, tasksData) ==
    /\ BagIn(r, inflight) /\ r.kind = "getTasks"
    /\ tasks' = tasksData
    /\ tasksFrom' = Some(r)
    /\ loading' = FALSE
    /\ inflight' = Complete(r, <<>>)
    /\ lastEvent' = Ev("loadTasks", "ok")
    /\ UNCHANGED <<currentView, selectedFolder, folders, diaryEntries, expandedTasks,
                   backendStatus, showNewTaskModal, showNewFolderModal, selectedDate,
                   newTask, newFolder>>
    /\ UNCHANGED appFrame

\* a catch branch that also clears the list
loadTasksFailClearing(r) ==
    /\ BagIn(r, inflight) /\ r.kind = "getTasks"
    /\ tasks' = <<>>
    /\ loading' = FALSE
    /\ inflight' = Complete(r, <<>>)
    /\ lastEvent' = Ev("loadTasks", "fail")
    /\ UNCHANGED <<currentView, selectedFolder, folders, diaryEntries, expandedTasks,
                   backendStatus, showNewTaskModal, showNewFolderModal, selectedDate,
                   newTask, newFolder>>
    /\ UNCHANGED <<tasksFrom, appFrame>>

\* loadTasks: api.getTasks(..) rejected; finally setLoading(false)
loadTasksFail(r) ==
    /\ BagIn(r, inflight) /\ r.kind = "getTasks"
    /\ loading' = FALSE
    /\ inflight' = Complete(r, <<>>)
    /\ lastEvent' = Ev("loadTasks", "fail")
    /\ UNCHANGED <<currentView, selectedFolder, folders, tasks, diaryEntries, expandedTasks,
                   backendStatus, showNewTaskModal, showNewFolderModal, selectedDate,
                   newTask, newFolder>>
    /\ UNCHANGED <<tasksFrom, appFrame>>

\* loadDiaryEntries: api.getDiaryEntries(..) resolved with entriesData
loadDiaryEntriesOk(r, entriesData) ==
    /\ BagIn(r, inflight) /\ r.kind = "getDiaryEntries"
    /\ diaryEntries' = entriesData
    /\ loading' = FALSE
    /\ inflight' = Complete(r, <<>>)
    /\ lastEvent' = Ev("loadDiaryEntries", "ok")
    /\ UNCHANGED <<currentView, selectedFolder, folders, tasks, expandedTasks,
                   backendStatus, showNewTaskModal, showNewFolderModal, selectedDate,
                   newTask, newFolder>>
    /\ UNCHANGED <<tasksFrom, appFrame>>

\* a loadDiaryEntries whose catch is not followed by a finally
loadDiaryEntriesFailNoFinally(r) ==
    /\ BagIn(r, inflight) /\ r.kind = "getDiaryEntries"
    /\ inflight' = Complete(r, <<>>)
    /\ lastEvent' = Ev("loadDiaryEntries", "fail")
    /\ UNCHANGED <<currentView, selectedFolder, folders, tasks, diaryEntries, expandedTasks,
                   loading, backendStatus, showNewTaskModal, showNewFolderModal,
                   selectedDate, newTask, newFolder>>
    /\ UNCHANGED <<tasksFrom, appFrame>>

\* loadDiaryEntries: api.getDiaryEntries(..) rejected; finally setLoading(false)
loadDiaryEntriesFail(r) ==
    /\ BagIn(r, inflight) /\ r.kind = "getDiaryEntries"
    /\ loading' = FALSE
    /\ inflight' = Complete(r, <<>>)
    /\ lastEvent' = Ev("loadDiaryEntries", "fail")
    /\ UNCHANGED <<currentView, selectedFolder, folders, tasks, diaryEntries, expandedTasks,
                   backendStatus, showNewTaskModal, showNewFolderModal, selectedDate,
                   newTask, newFolder>>
    /\ UNCHANGED <<tasksFrom, appFrame>>

---------------------------------------------------------------------------
(* TodoApp: form handlers, create handlers, task actions *)

\* handleTaskTitleChange, from the title input of the open task modal
handleTaskTitleChange(value) ==
    /\ showNewTaskModal
    /\ newTask' = [newTask EXCEPT !.title = value]
    /\ lastEvent' = Ev("ui", "ui")
    /\ UNCHANGED <<currentView, selectedFolder, folders, tasks, diaryEntries, expandedTasks,
                   loading, backendStatus, showNewTaskModal, showNewFolderModal,
                   selectedDate, newFolder, inflight>>
    /\ UNCHANGED <<tasksFrom, appFrame>>

\* handleFolderNameChange, from the name input of the open folder modal
handleFolderNameChange(value) ==
    /\ showNewFolderModal
    /\ newFolder' = [newFolder EXCEPT !.name = value]
    /\ lastEvent' = Ev("ui", "ui")
    /\ UNCHANGED <<currentView, selectedFolder, folders, tasks, diaryEntries, expandedTasks,
                   loading, backendStatus, showNewTaskModal, showNewFolderModal,
                   selectedDate, newTask, inflight>>
    /\ UNCHANGED <<tasksFrom, appFrame>>

\* new Date(s).toISOString() of a datetime-local string
DateInputToISOString(s) == <<"toISOString", s>>

\* the taskData object handleCreateTask builds
TaskData(draft, sel) ==
    [title |-> draft.title,
     description |-> draft.description,
     priority |-> draft.priority,
     is_calendar_event |-> draft.is_calendar_event,
     folder_id |-> FolderIdOrNull(sel),
     due_date |-> IF draft.due_date # "" THEN Some(DateInputToISOString(draft.due_date))
                  ELSE None]

\* a Create Task button without the disabled attribute
CreateTaskAlwaysEnabled == TRUE

\* disabled={!newTask.title} on the Create Task button
CreateTaskEnabled == newTask.title # ""

\* disabled={!newFolder.name} on the Create Folder button
CreateFolderEnabled == newFolder.name # ""

\* handleCreateTask up to its await: the click on Create Task
handleCreateTask ==
    /\ showNewTaskModal
    /\ CreateTaskEnabled
    /\ Fits(1)
    /\ LET r == apiCreateTask(TaskData(newTask, selectedFolder), loadTasks(selectedFolder))
       IN /\ inflight' = inflight (+) SetToBag({r})
          /\ lastEvent' = Ev("ui", "ui")
    /\ UNCHANGED <<currentView, selectedFolder, folders, tasks, diaryEntries, expandedTasks,
                   loading, backendStatus, showNewTaskModal, showNewFolderModal,
                   selectedDate, newTask, newFolder>>
    /\ UNCHANGED <<tasksFrom, appFrame>>

\* handleCreateTask after its await resolved (a response of any status code): reset
\* the draft, close, loadTasks()
handleCreateTaskOk(r) ==
    /\ BagIn(r, inflight) /\ r.kind = "createTask"
    /\ LET sent == <<r.reload>>
       IN /\ newTask' = DefaultNewTask
          /\ showNewTaskModal' = FALSE
          /\ loading' = LoadingAfter(sent)
          /\ inflight' = Complete(r, sent)
          /\ \E status \in HttpStatuses :
                lastEvent' = Ev("handleCreateTask", Outcome(status))
    /\ UNCHANGED <<currentView, selectedFolder, folders, tasks, diaryEntries, expandedTasks,
                   backendStatus, showNewFolderModal, selectedDate, newFolder>>
    /\ UNCHANGED <<tasksFrom, appFrame>>

\* handleCreateTask after its await rejected: console.error only
handleCreateTaskFail(r) ==
    /\ BagIn(r, inflight) /\ r.kind = "createTask"
    /\ inflight' = Complete(r, <<>>)
    /\ lastEvent' = Ev("handleCreateTask", "fail")
    /\ UNCHANGED <<currentView, selectedFolder, folders, tasks, diaryEntries, expandedTasks,
                   loading, backendStatus, showNewTaskModal, showNewFolderModal,
                   selectedDate, newTask, newFolder>>
    /\ UNCHANGED <<tasksFrom, appFrame>>

\* handleCreateFolder up to its await: the click on Create Folder
handleCreateFolder ==
    /\ showNewFolderModal
    /\ CreateFolderEnabled
    /\ Fits(1)
    /\ LET r == apiCreateFolder(newFolder)
       IN /\ inflight' = inflight (+) SetToBag({r})
          /\ lastEvent' = Ev("ui", "ui")
    /\ UNCHANGED <<currentView, selectedFolder, folders, tasks, diaryEntries, expandedTasks,
                   loading, backendStatus, showNewTaskModal, showNewFolderModal,
                   selectedDate, newTask, newFolder>>
    /\ UNCHANGED <<tasksFrom, appFrame>>

\* handleCreateFolder after its await resolved (a response of any status code): reset
\* the draft, close, loadFolders()
handleCreateFolderOk(r) ==
    /\ BagIn(r, inflight) /\ r.kind = "createFolder"
    /\ newFolder' = DefaultNewFolder
    /\ showNewFolderModal' = FALSE
    /\ inflight' = Complete(r, <<loadFolders>>)
    /\ \E status \in HttpStatuses : lastEvent' = Ev("handleCreateFolder", Outcome(status))
    /\ UNCHANGED <<currentView, selectedFolder, folders, tasks, diaryEntries, expandedTasks,
                   loading, backendStatus, showNewTaskModal, selectedDate, newTask>>
    /\ UNCHANGED <<tasksFrom, appFrame>>

\* handleCreateFolder after its await rejected
handleCreateFolderFail(r) ==
    /\ BagIn(r, inflight) /\ r.kind = "createFolder"
    /\ inflight' = Complete(r, <<>>)
    /\ lastEvent' = Ev("handleCreateFolder", "fail")
    /\ UNCHANGED <<currentView, selectedFolder, folders, tasks, diaryEntries, expandedTasks,
                   loading, backendStatus, showNewTaskModal, showNewFolderModal,
                   selectedDate, newTask, newFolder>>
    /\ UNCHANGED <<tasksFrom, appFrame>>

\* DiaryView is rendered: the diary case of renderCurrentView, backend connected
DiaryViewShown == backendStatus = "connected" /\ currentView = "diary"

\* the entryData object handleCreateDiaryEntry builds (mood: undefined is dropped)
EntryData(content, sel) ==
    [entry_date |-> "today", title |-> "", content |-> content, weather |-> "",
     folder_id |-> FolderIdOrNull(sel)]

\* handleCreateDiaryEntry(content) up to its await
handleCreateDiaryEntry(content) ==
    /\ DiaryViewShown
    /\ Fits(1)
    /\ LET r == apiCreateDiaryEntry(EntryData(content, selectedFolder),
                                    loadDiaryEntries(selectedDate, selectedFolder))
       IN /\ inflight' = inflight (+) SetToBag({r})
          /\ lastEvent' = Ev("ui", "ui")
    /\ UNCHANGED <<currentView, selectedFolder, folders, tasks, diaryEntries, expandedTasks,
                   loading, backendStatus, showNewTaskModal, showNewFolderModal,
                   selectedDate, newTask, newFolder>>
    /\ UNCHANGED <<tasksFrom, appFrame>>

\* handleCreateDiaryEntry after its await resolved: loadDiaryEntries()
handleCreateDiaryEntryOk(r) ==
    /\ BagIn(r, inflight) /\ r.kind = "createDiaryEntry"
    /\ LET sent == <<r.reload>>
       IN /\ loading' = LoadingAfter(sent)
          /\ inflight' = Complete(r, sent)
          /\ lastEvent' = Ev("handleCreateDiaryEntry", "ok")
    /\ UNCHANGED <<currentView, selectedFolder, folders, tasks, diaryEntries, expandedTasks,
                   backendStatus, showNewTaskModal, showNewFolderModal, selectedDate,
                   newTask, newFolder>>
    /\ UNCHANGED <<tasksFrom, appFrame>>

\* handleCreateDiaryEntry after its await rejected
handleCreateDiaryEntryFail(r) ==
    /\ BagIn(r, inflight) /\ r.kind = "createDiaryEntry"
    /\ inflight' = Complete(r, <<>>)
    /\ lastEvent' = Ev("handleCreateDiaryEntry", "fail")
    /\ UNCHANGED <<currentView, selectedFolder, folders, tasks, diaryEntries, expandedTasks,
                   loading, backendStatus, showNewTaskModal, showNewFolderModal,
                   selectedDate, newTask, newFolder>>
    /\ UNCHANGED <<tasksFrom, appFrame>>

\* handleUpdateDiaryEntry(id, content): calling a member the api object does not have
\* throws a TypeError inside the try, before anything is sent; the catch logs it
handleUpdateDiaryEntry(id, content) ==
    /\ DiaryViewShown
    /\ ~loading
    /\ \E i \in DOMAIN diaryEntries : diaryEntries[i].id = id
    /\ IF "updateDiaryEntry" \in apiMembers
       THEN /\ Fits(1)
            /\ LET r == [kind |-> "updateDiaryEntry", id |-> id,
                         body |-> [content |-> content],
                         reload |-> loadDiaryEntries(selectedDate, selectedFolder)]
               IN /\ inflight' = inflight (+) SetToBag({r})
                  /\ lastEvent' = Ev("ui", "ui")
       ELSE /\ inflight' = inflight
            /\ lastEvent' = Ev("handleUpdateDiaryEntry", "threw")
    /\ UNCHANGED <<currentView, selectedFolder, folders, tasks, diaryEntries, expandedTasks,
                   loading, backendStatus, showNewTaskModal, showNewFolderModal,
                   selectedDate, newTask, newFolder>>
    /\ UNCHANGED <<tasksFrom, appFrame>>

\* <CalendarView tasks={tasks} />: the calendar case of renderCurrentView
CalendarViewShown == backendStatus = "connected" /\ currentView = "calendar"

\* the task cards are rendered: default case of renderCurrentView, not loading
TaskCardsShown == backendStatus = "connected" /\ currentView = "tasks" /\ ~loading

\* a toggle that steps through the three statuses
newStatusCycling(status) ==
    IF status = "pending" THEN "in_progress"
    ELSE IF status = "in_progress" THEN "completed" ELSE "pending"

\* task.status === 'completed' ? 'pending' : 'completed'
newStatus(status) == IF status = "completed" THEN "pending" ELSE "completed"

\* toggleTaskStatus(task) up to its await
toggleTaskStatus(task) ==
    /\ TaskCardsShown
    /\ task \in Range(tasks)
    /\ Fits(1)
    /\ LET r == apiUpdateTask(task.id, [status |-> newStatus(task.status)], task,
                              loadTasks(selectedFolder))
       IN /\ inflight' = inflight (+) SetToBag({r})
          /\ lastEvent' = Ev("ui", "ui")
    /\ UNCHANGED <<currentView, selectedFolder, folders, tasks, diaryEntries, expandedTasks,
                   loading, backendStatus, showNewTaskModal, showNewFolderModal,
                   selectedDate, newTask, newFolder>>
    /\ UNCHANGED <<tasksFrom, appFrame>>

\* toggleTaskStatus after its await resolved: loadTasks()
toggleTaskStatusOk(r) ==
    /\ BagIn(r, inflight) /\ r.kind = "updateTask"
    /\ LET sent == <<r.reload>>
       IN /\ loading' = LoadingAfter(sent)
          /\ inflight' = Complete(r, sent)
          /\ lastEvent' = Ev("toggleTaskStatus", "ok")
    /\ UNCHANGED <<currentView, selectedFolder, folders, tasks, diaryEntries, expandedTasks,
                   backendStatus, showNewTaskModal, showNewFolderModal, selectedDate,
                   newTask, newFolder>>
    /\ UNCHANGED <<tasksFrom, appFrame>>

\* a map that flips from the list's current status instead of the clicked task's
LocalStatusUpdateFromCurrent(prev, task) ==
    [i \in DOMAIN prev |->
        IF prev[i].id = task.id
        THEN [prev[i] EXCEPT !.status = newStatus(prev[i].status)]
        ELSE prev[i]]

\* the catch branch's setTasks(prev => prev.map(..))
LocalStatusUpdate(prev, task) ==
    [i \in DOMAIN prev |->
        IF prev[i].id = task.id
        THEN [prev[i] EXCEPT !.status = newStatus(task.status)]
        ELSE prev[i]]

\* toggleTaskStatus after its await rejected: log, then update locally
toggleTaskStatusFail(r) ==
    /\ BagIn(r, inflight) /\ r.kind = "updateTask"
    /\ tasks' = LocalStatusUpdate(tasks, r.task)
    /\ inflight' = Complete(r, <<>>)
    /\ lastEvent' = Ev("toggleTaskStatus", "fail")
    /\ UNCHANGED <<currentView, selectedFolder, folders, diaryEntries, expandedTasks,
                   loading, backendStatus, showNewTaskModal, showNewFolderModal,
                   selectedDate, newTask, newFolder>>
    /\ UNCHANGED <<tasksFrom, appFrame>>

\* a toggle that only ever adds the id
newExpandedAddOnly(expanded, taskId) == expanded \cup {taskId}

\* toggleTaskExpansion's newExpanded: a copy of expandedTasks with taskId deleted when
\* it has it and added otherwise
newExpanded(expanded, taskId) ==
    IF taskId \in expanded THEN expanded \ {taskId} ELSE expanded \cup {taskId}

\* toggleTaskExpansion(taskId), called by the card of a task of the list (title or
\* chevron click): setExpandedTasks(newExpanded)
toggleTaskExpansion(taskId) ==
    /\ TaskCardsShown
    /\ \E i \in DOMAIN tasks : tasks[i].id = taskId
    /\ expandedTasks' = newExpanded(expandedTasks, taskId)
    /\ lastEvent' = Ev("ui", "ui")
    /\ UNCHANGED <<currentView, selectedFolder, folders, tasks, diaryEntries, loading,
                   backendStatus, showNewTaskModal, showNewFolderModal, selectedDate,
                   newTask, newFolder, inflight>>
    /\ UNCHANGED <<tasksFrom, appFrame>>

---------------------------------------------------------------------------
(* TodoApp: sidebar and modal buttons *)

\* the Sidebar is rendered: every render but the 'checking' one
SidebarShown == backendStatus # "checking"

\* the view's header with the Add Task button: default case of renderCurrentView
TasksViewShown == backendStatus = "connected" /\ currentView = "tasks"

\* Sidebar view buttons: setCurrentView(view); the view-loading effect runs when the
\* value changed
setCurrentView(view) ==
    /\ SidebarShown
    /\ LET sent == IF view # currentView
                   THEN ViewEffect(view, selectedFolder, selectedDate, backendStatus)
                   ELSE <<>>
       IN /\ Fits(Len(sent))
          /\ currentView' = view
          /\ loading' = LoadingAfter(sent)
          /\ inflight' = inflight (+) BagOfSeq(sent)
          /\ lastEvent' = Ev("ui", "ui")
    /\ UNCHANGED <<selectedFolder, folders, tasks, diaryEntries, expandedTasks,
                   backendStatus, showNewTaskModal, showNewFolderModal, selectedDate,
                   newTask, newFolder>>
    /\ UNCHANGED <<tasksFrom, appFrame>>

\* Sidebar folder buttons: setSelectedFolder(null | folder); the view-loading effect
\* runs when the value changed
setSelectedFolder(sel) ==
    /\ SidebarShown
    /\ IF sel = None THEN TRUE ELSE sel[1] \in Range(folders)
    /\ LET sent == IF sel # selectedFolder
                   THEN ViewEffect(currentView, sel, selectedDate, backendStatus)
                   ELSE <<>>
       IN /\ Fits(Len(sent))
          /\ selectedFolder' = sel
          /\ loading' = LoadingAfter(sent)
          /\ inflight' = inflight (+) BagOfSeq(sent)
          /\ lastEvent' = Ev("ui", "ui")
    /\ UNCHANGED <<currentView, folders, tasks, diaryEntries, expandedTasks,
                   backendStatus, showNewTaskModal, showNewFolderModal, selectedDate,
                   newTask, newFolder>>
    /\ UNCHANGED <<tasksFrom, appFrame>>

\* Add Task / Create your first task (open) and the task modal's Cancel / X (close)
setShowNewTaskModal(open) ==
    /\ IF open THEN TasksViewShown ELSE showNewTaskModal
    /\ showNewTaskModal' = open
    /\ lastEvent' = Ev("ui", "ui")
    /\ UNCHANGED <<currentView, selectedFolder, folders, tasks, diaryEntries, expandedTasks,
                   loading, backendStatus, showNewFolderModal, selectedDate, newTask,
                   newFolder, inflight>>
    /\ UNCHANGED <<tasksFrom, appFrame>>

\* the Sidebar's + button (open) and the folder modal's Cancel / X (close)
setShowNewFolderModal(open) ==
    /\ IF open THEN SidebarShown ELSE showNewFolderModal
    /\ showNewFolderModal' = open
    /\ lastEvent' = Ev("ui", "ui")
    /\ UNCHANGED <<currentView, selectedFolder, folders, tasks, diaryEntries, expandedTasks,
                   loading, backendStatus, showNewTaskModal, selectedDate, newTask,
                   newFolder, inflight>>
    /\ UNCHANGED <<tasksFrom, appFrame>>

Requests == BagToSet(inflight)

\* the connection test and the three loaders' completions
Loads ==
    \/ testConnectionOk
    \/ testConnectionFail
    \/ \E foldersData \in FolderResponses : loadFoldersOk(foldersData)
    \/ loadFoldersFail
    \/ \E r \in Requests, tasksData \in TaskResponses : loadTasksOk(r, tasksData)
    \/ \E r \in Requests : loadTasksFail(r)
    \/ \E r \in Requests, entriesData \in DiaryResponses : loadDiaryEntriesOk(r, entriesData)
    \/ \E r \in Requests : loadDiaryEntriesFail(r)

\* the diary view
DiaryActions ==
    \/ \E content \in Contents : handleCreateDiaryEntry(content)
    \/ \E r \in Requests : handleCreateDiaryEntryOk(r)
    \/ \E r \in Requests : handleCreateDiaryEntryFail(r)
    \/ \E id \in EntryIds, content \in Contents : handleUpdateDiaryEntry(id, content)

\* the task cards
TaskActions ==
    \/ \E task \in Range(tasks) : toggleTaskStatus(task)
    \/ \E r \in Requests : toggleTaskStatusOk(r)
    \/ \E r \in Requests : toggleTaskStatusFail(r)

\* the two create modals
FormActions ==
    \/ \E value \in Titles : handleTaskTitleChange(value)
    \/ \E value \in FolderNames : handleFolderNameChange(value)
    \/ handleCreateTask
    \/ \E r \in Requests : handleCreateTaskOk(r)
    \/ \E r \in Requests : handleCreateTaskFail(r)
    \/ handleCreateFolder
    \/ \E r \in Requests : handleCreateFolderOk(r)
    \/ \E r \in Requests : handleCreateFolderFail(r)
    \/ \E open \in BOOLEAN : setShowNewTaskModal(open)
    \/ \E open \in BOOLEAN : setShowNewFolderModal(open)

ViewButtons == \E view \in Views : setCurrentView(view)

FolderButtons ==
    \E sel \in {None} \cup {Some(f) : f \in Range(folders)} : setSelectedFolder(sel)

\* the components that are not mounted in a specification keep their props
IdleCalendar ==
    /\ currentDate = [y |-> 2024, m |-> 0, d |-> 1]
    /\ now = [y |-> 2024, m |-> 0, d |-> 1]
    /\ tzOffset = 0
    /\ calTasks = <<>>

IdleCard ==
    /\ cardTask = [id |-> 1, status |-> "pending", substeps |-> None]
    /\ isExpanded = FALSE

Init == InitApp /\ IdleCalendar /\ IdleCard /\ IdleDiary

\* Spec: the app used through the sidebar and the task cards
Next == Loads \/ TaskActions \/ ViewButtons \/ FolderButtons

Spec == Init /\ [][Next]_vars

\* SpecDiary: the app used through the sidebar and the diary view
NextDiary == Loads \/ DiaryActions \/ ViewButtons \/ FolderButtons

SpecDiary == Init /\ [][NextDiary]_vars

\* SpecForms: the app used through the sidebar's folders and the two create modals
NextForms ==
    \/ testConnectionOk
    \/ testConnectionFail
    \/ \E foldersData \in FolderResponses : loadFoldersOk(foldersData)
    \/ loadFoldersFail
    \/ \E r \in Requests, tasksData \in TaskResponses : loadTasksOk(r, tasksData)
    \/ \E r \in Requests : loadTasksFail(r)
    \/ FormActions
    \/ FolderButtons

SpecForms == Init /\ [][NextForms]_vars

\* SpecCalendar: the CalendarView component with its month navigation
InitCalendarView == InitApp /\ InitCalendar /\ IdleCard /\ IdleDiary

NextCalendar == previousMonth \/ nextMonth \/ goToToday

SpecCalendar == InitCalendarView /\ [][NextCalendar]_vars

\* SpecCard: the TaskCard component
InitTaskCard == InitApp /\ IdleCalendar /\ InitCard /\ IdleDiary

NextCard ==
    \/ clickTitle
    \/ clickChevron
    \/ clickStatusIcon
    \/ \E i \in 1 .. MaxSubsteps : clickSubstepCheckbox(i)

SpecCard == InitTaskCard /\ [][NextCard]_vars

\* SpecHandlers: every handler of the app, with 'All' as the selected folder
NextHandlers == Loads \/ TaskActions \/ DiaryActions \/ FormActions \/ ViewButtons

SpecHandlers == Init /\ [][NextHandlers]_vars

\* a loadTasks or loadDiaryEntries request completes, successfully or with a failure
LoadCompletes ==
    \/ \E r \in Requests, tasksData \in TaskResponses : loadTasksOk(r, tasksData)
    \/ \E r \in Requests : loadTasksFail(r)
    \/ \E r \in Requests, entriesData \in DiaryResponses : loadDiaryEntriesOk(r, entriesData)
    \/ \E r \in Requests : loadDiaryEntriesFail(r)

\* SpecLive: Spec with a backend that eventually answers (or fails) the load requests:
\* a fetch that is in flight ends, by a response or by a network error
SpecLive == Init /\ [][Next]_vars /\ WF_vars(LoadCompletes)

\* the title and chevron clicks of the task cards
ExpansionActions == \E taskId \in TaskIds : toggleTaskExpansion(taskId)

\* the task modal
TaskFormActions ==
    \/ \E value \in Titles : handleTaskTitleChange(value)
    \/ handleCreateTask
    \/ \E r \in Requests : handleCreateTaskOk(r)
    \/ \E r \in Requests : handleCreateTaskFail(r)
    \/ \E open \in BOOLEAN : setShowNewTaskModal(open)

\* SpecTasks: the tasks view with its cards and the task modal, the sidebar's folder
\* buttons and the switch to the calendar and back
NextTasks ==
    \/ testConnectionOk
    \/ testConnectionFail
    \/ \E foldersData \in FolderResponses : loadFoldersOk(foldersData)
    \/ loadFoldersFail
    \/ \E r \in Requests, tasksData \in TaskResponses : loadTasksOk(r, tasksData)
    \/ \E r \in Requests : loadTasksFail(r)
    \/ TaskActions
    \/ ExpansionActions
    \/ TaskFormActions
    \/ FolderButtons
    \/ \E view \in {"tasks", "calendar"} : setCurrentView(view)

SpecTasks == Init /\ [][NextTasks]_vars

\* SpecFolders: the tasks view used through the folder buttons, with a backend that
\* answers every request successfully, in any order
NextFolders ==
    \/ testConnectionOk
    \/ \E foldersData \in FolderResponses : loadFoldersOk(foldersData)
    \/ \E r \in Requests, tasksData \in TaskResponses : loadTasksOk(r, tasksData)
    \/ FolderButtons

SpecFolders == Init /\ [][NextFolders]_vars

\* SpecViews: SpecFolders with the sidebar's view buttons
NextViews ==
    \/ NextFolders
    \/ ViewButtons
    \/ \E r \in Requests, entriesData \in DiaryResponses : loadDiaryEntriesOk(r, entriesData)

SpecViews == Init /\ [][NextViews]_vars

---------------------------------------------------------------------------
(* Properties of the TodoApp handlers *)

\* the requests a step has put in flight
Issued(r) == CopiesIn(r, inflight') > CopiesIn(r, inflight)

\* a step in which a handler's request fails (or its call throws) and the catch runs
FailureOfLoader ==
    \/ loadFoldersFail
    \/ \E r \in Requests : loadTasksFail(r)
    \/ \E r \in Requests : loadDiaryEntriesFail(r)

FailureOfCreateOrUpdate ==
    \/ \E r \in Requests : handleCreateTaskFail(r)
    \/ \E r \in Requests : handleCreateFolderFail(r)
    \/ \E r \in Requests : handleCreateDiaryEntryFail(r)
    \/ \E id \in EntryIds, content \in Contents :
          handleUpdateDiaryEntry(id, content) /\ lastEvent'.outcome = "threw"

FailureOfToggle == \E r \in Requests : toggleTaskStatusFail(r)

\* C1 as stated: whenever the request of any of the eight handlers fails, the
\* folders, tasks and diaryEntries lists are the same after the failed call as before.
C1_FailureLeavesListsAlone ==
    [][(FailureOfLoader \/ FailureOfCreateOrUpdate \/ FailureOfToggle)
          => UNCHANGED <<folders, tasks, diaryEntries>>]_vars

\* C1 amended: a failure in loadFolders, loadTasks, loadDiaryEntries, handleCreateTask,
\* handleCreateFolder, handleCreateDiaryEntry or handleUpdateDiaryEntry leaves the
\* folders, tasks and diaryEntries lists as they were; a failure in toggleTaskStatus
\* leaves folders and diaryEntries as they were (it rewrites tasks locally).
C1_FailureLeavesListsAloneButToggle ==
    [][/\ (FailureOfLoader \/ FailureOfCreateOrUpdate)
             => UNCHANGED <<folders, tasks, diaryEntries>>
       /\ FailureOfToggle => UNCHANGED <<folders, diaryEntries>>]_vars

\* C1 witness: a loadTasks request has just failed while the app holds tasks and folders
C1_Witness ==
    /\ lastEvent = Ev("loadTasks", "fail")
    /\ tasks # <<>>
    /\ folders # <<>>

\* C2 as stated: every call handleUpdateDiaryEntry(id, content) sends an update request
\* for entry id that carries the new content.
C2_UpdateRequestIsSent ==
    [][\A id \in EntryIds, content \in Contents :
          handleUpdateDiaryEntry(id, content)
             => \E r \in BagToSet(inflight') :
                   /\ Issued(r)
                   /\ r.kind = "updateDiaryEntry"
                   /\ r.id = id
                   /\ r.body.content = content]_vars

\* C5 as stated: a getTasks or getDiaryEntries request is sent with the folder_id of the
\* folder selected when it is sent, a created task with that folder_id, and only with
\* 'All' selected is there no folder filter (folder_id null).
C5_RequestsCarrySelectedFolder ==
    [][\A r \in BagToSet(inflight') :
          Issued(r) =>
             /\ r.kind \in {"getTasks", "getDiaryEntries"}
                   => r.folder_id = FolderIdOpt(selectedFolder')
             /\ r.kind = "createTask"
                   => r.body.folder_id = FolderIdOpt(selectedFolder')]_vars

\* C6 as stated: backendStatus starts as 'checking'; the health check's completion
\* sets it to 'connected' on success and 'error' on failure; once it has left
\* 'checking' it never changes again; and getFolders is requested only after the health
\* check has succeeded.
C6_StatusAndFoldersRequest ==
    /\ backendStatus = "checking"
    /\ [][/\ testConnectionOk => backendStatus' = "connected"
          /\ testConnectionFail => backendStatus' = "error"
          /\ backendStatus # "checking" => backendStatus' = backendStatus
          /\ Issued(apiGetFolders) => backendStatus' = "connected"]_vars

\* C7: no createTask request in flight has an empty title and no createFolder request
\* in flight has an empty name.
C7_NoEmptyTitleOrName ==
    \A r \in Requests :
        /\ r.kind = "createTask" => r.body.title # ""
        /\ r.kind = "createFolder" => r.body.name # ""

\* C7 witness: a create has succeeded and reset the draft to the empty title while
\* another createTask request is still in flight
C7_Witness ==
    /\ lastEvent = Ev("handleCreateTask", "ok")
    /\ newTask.title = ""
    /\ \E r \in Requests : r.kind = "createTask"

\* C8: every updateTask request of toggleTaskStatus is for the clicked task's id and
\* sets 'pending' when the clicked task was 'completed' and 'completed' otherwise; so
\* two toggles return 'pending' and 'completed' to themselves and take 'in_progress'
\* to 'pending'; and right after a successful update a getTasks reload is in flight.
C8_ToggleRequest ==
    /\ \A r \in Requests :
          r.kind = "updateTask" =>
             /\ r.id = r.task.id
             /\ r.task.status = "completed" => r.body.status = "pending"
             /\ r.task.status \in {"pending", "in_progress"} => r.body.status = "completed"
             /\ r.task.status \in {"pending", "completed"}
                   => newStatus(r.body.status) = r.task.status
             /\ r.task.status = "in_progress" => newStatus(r.body.status) = "pending"
    /\ lastEvent = Ev("toggleTaskStatus", "ok")
          => \E r \in Requests : r.kind = "getTasks"

\* C8 witness: the update for an 'in_progress' task is in flight
C8_Witness ==
    \E r \in Requests : r.kind = "updateTask" /\ r.task.status = "in_progress"

\* what C10 says the list is after a failed toggle of `task`
FlippedLocally(prev, task) ==
    [i \in DOMAIN prev |->
        IF prev[i].id = task.id
        THEN [id |-> prev[i].id,
              status |-> IF task.status = "completed" THEN "pending" ELSE "completed"]
        ELSE prev[i]]

\* C10: when the updateTask request of toggleTaskStatus(task) fails, the entry of tasks
\* with the clicked task's id gets the status flipped from the clicked task's status,
\* every other entry, the order and the length stay, and no request is issued.
C10_FailedToggleUpdatesLocally ==
    [][\A r \in Requests :
          toggleTaskStatusFail(r) =>
             /\ tasks' = FlippedLocally(tasks, r.task)
             /\ Len(tasks') = Len(tasks)
             /\ \A q \in BagToSet(inflight') : ~Issued(q)]_vars

\* C10 witness: a toggle has just failed and task 1 shows the locally flipped status
\* next to an untouched task 2
C10_Witness ==
    /\ lastEvent = Ev("toggleTaskStatus", "fail")
    /\ Len(tasks) >= 2
    /\ tasks[1].status = "completed"
    /\ tasks[2].status = StoredStatus(2)

---------------------------------------------------------------------------
(* Properties of CalendarView and TaskCard *)

\* the Gregorian length of month m (0-based) of year y
MonthLength(y, m) ==
    IF m = 1 THEN (IF InLeapYear(y) THEN 29 ELSE 28)
    ELSE IF m \in {3, 5, 8, 10} THEN 30 ELSE 31

\* the weekday (Sunday = 0) of a civil date by Zeller's congruence
Weekday(y, m, d) ==
    LET mm == IF m < 2 THEN m + 13 ELSE m + 1
        yy == IF m < 2 THEN y - 1 ELSE y
        h == (d + ((13 * (mm + 1)) \div 5) + (yy % 100) + ((yy % 100) \div 4)
                + ((yy \div 100) \div 4) + 5 * (yy \div 100)) % 7
    IN (h + 6) % 7

\* C3 as stated: for every day cell D of the displayed month and every task of the
\* tasks prop, the task is listed in the cell exactly when it has a due date whose
\* calendar date is day D of the displayed month; a task without a due date is listed
\* in no cell; whatever the browser's UTC offset.
C3_TaskListedOnItsDueDay ==
    LET grid == days
    IN \A index \in DOMAIN grid :
          grid[index] # None =>
             \A i \in DOMAIN calTasks :
                (calTasks[i] \in Range(tasksForDay(grid[index])))
                    <=> /\ calTasks[i].due_date # None
                        /\ DuePrefix(calTasks[i].due_date[1])
                              = <<currentDate.y, currentDate.m + 1, grid[index][1].d>>

\* C4: getDaysInMonth gives k nulls followed by the days 1 .. N of the displayed month
\* in order, k the weekday of the 1st (Sunday = 0) and N the length of the month, so
\* each day sits in the grid column of its own weekday.
C4_GridOfMonth ==
    LET k == Weekday(currentDate.y, currentDate.m, 1)
        N == MonthLength(currentDate.y, currentDate.m)
        grid == days
    IN /\ Len(grid) = k + N
       /\ \A j \in 1 .. Len(grid) :
             IF j <= k THEN grid[j] = None
             ELSE /\ grid[j] = Some([y |-> currentDate.y, m |-> currentDate.m, d |-> j - k])
                  /\ (j - 1) % 7 = Weekday(currentDate.y, currentDate.m, j - k)

\* C4 witness: February of a leap year is displayed, reached by navigation: four empty
\* cells and 29 days
C4_Witness ==
    /\ currentDate = [y |-> 2024, m |-> 1, d |-> 1]
    /\ now.m # 1
    /\ LET grid == days
       IN /\ Len(grid) = 33
          /\ grid[4] = None
          /\ grid[33] = Some([y |-> 2024, m |-> 1, d |-> 29])

\* the number of completed substeps, counted over the indices of the list
CompletedCount(task) ==
    IF task.substeps = None THEN 0
    ELSE Cardinality({i \in DOMAIN task.substeps[1] : task.substeps[1][i].is_completed})

\* C9: 0 <= completedSubsteps <= totalSubsteps, with totalSubsteps the number of
\* substeps and completedSubsteps the number of completed ones; the progress bar and
\* label are rendered exactly when the task has a substep, and then the width lies in
\* 0 .. 100.
C9_SubstepProgress ==
    /\ totalSubsteps(cardTask)
          = (IF cardTask.substeps = None THEN 0 ELSE Len(cardTask.substeps[1]))
    /\ completedSubsteps(cardTask) = CompletedCount(cardTask)
    /\ 0 <= completedSubsteps(cardTask)
    /\ completedSubsteps(cardTask) <= totalSubsteps(cardTask)
    /\ (ProgressBar(cardTask) # None)
          <=> (cardTask.substeps # None /\ Len(cardTask.substeps[1]) > 0)
    /\ ProgressBar(cardTask) # None =>
          /\ ProgressBar(cardTask)[1].width \in 0 .. 100
          /\ ProgressBar(cardTask)[1].label
                = <<CompletedCount(cardTask), Len(cardTask.substeps[1])>>

\* C9 witness: an expanded card whose three substeps are all completed, its status
\* toggled to 'completed'
C9_Witness ==
    /\ SubstepsPanelShown(cardTask, isExpanded)
    /\ totalSubsteps(cardTask) = 3
    /\ completedSubsteps(cardTask) = 3
    /\ ProgressBar(cardTask) # None
    /\ ProgressBar(cardTask)[1].width = 100
    /\ cardTask.status = "completed"

\* DiaryView on its own: either version of the file, mounted with a list of entries
InitDiary ==
    /\ diaryVersion \in {"inline", "modal"}
    /\ entriesProp \in DiaryViewEntryLists
    /\ propCall = None
    /\ currentEntry = <<>>
    /\ editingEntry = None
    /\ editContent = <<>>
    /\ showNewEntryModal = FALSE
    /\ showEditModal = FALSE
    /\ currentEntryInline = <<>>
    /\ editingId = None
    /\ editContentInline = <<>>

InitDiaryView == InitApp /\ IdleCalendar /\ IdleCard /\ InitDiary

NextDiaryView ==
    \/ handleSaveEntry
    \/ handleSaveEdit
    \/ handleShowNewEntryModal
    \/ handleCancelNewEntry
    \/ \E entry \in Range(entriesProp) : handleEditEntry(entry)
    \/ handleCancelEdit
    \/ \E value \in Texts : handleCurrentEntryChange(value)
    \/ \E value \in Texts : handleEditContentChange(value)
    \/ handleAddSeparator
    \/ handleKeyDown
    \/ handleSaveEntryInline
    \/ \E entry \in Range(entriesProp) : handleEditEntryInline(entry)
    \/ \E entry \in Range(entriesProp) : handleSaveEditInline(entry.id)
    \/ handleCancelEditInline
    \/ handleKeyDownInline
    \/ \E value \in Texts : setCurrentEntryInline(value)
    \/ \E value \in Texts : setEditContentInline(value)

SpecDiaryView == InitDiaryView /\ [][NextDiaryView]_vars

\* Save Entry in the DiaryView that App renders: handleSaveEntry of the mounted version
\* calls onNewEntry, which is App's handleCreateDiaryEntry, and goes on while the
\* request that call issued is still in flight
saveNewEntry ==
    /\ DiaryViewShown
    /\ Fits(1)
    /\ diaryVersion = "modal" => showNewEntryModal
    /\ LET trimmed == Trim(IF diaryVersion = "modal" THEN currentEntry
                                                     ELSE currentEntryInline)
           r == apiCreateDiaryEntry(EntryData(trimmed, selectedFolder),
                                    loadDiaryEntries(selectedDate, selectedFolder))
       IN /\ trimmed # <<>>
          /\ propCall' = Some(onNewEntry(trimmed))
          /\ inflight' = inflight (+) SetToBag({r})
          /\ lastEvent' = Ev("ui", "ui")
    /\ IF diaryVersion = "modal"
       THEN /\ currentEntry' = <<>>
            /\ showNewEntryModal' = FALSE
            /\ UNCHANGED <<editingEntry, editContent, showEditModal, diaryInlineVars>>
       ELSE /\ currentEntryInline' = <<>>
            /\ UNCHANGED <<editingId, editContentInline, diaryModalVars>>
    /\ UNCHANGED <<currentView, selectedFolder, folders, tasks, diaryEntries, expandedTasks,
                   loading, backendStatus, showNewTaskModal, showNewFolderModal,
                   selectedDate, newTask, newFolder, tasksFrom>>
    /\ UNCHANGED <<calVars, cardVars, diaryVersion, entriesProp>>

\* SpecNewEntry: the new-entry editor of the DiaryView that App renders in the diary
\* view; its handlers do not read the list of entries
NextNewEntry ==
    \/ Loads
    \/ setCurrentView("diary")
    \/ DiaryViewShown /\ \E value \in Texts : setCurrentEntryInline(value)
    \/ DiaryViewShown /\ handleShowNewEntryModal
    \/ DiaryViewShown /\ showNewEntryModal /\ \E value \in Texts : handleCurrentEntryChange(value)
    \/ DiaryViewShown /\ showNewEntryModal /\ handleCancelNewEntry
    \/ saveNewEntry
    \/ \E r \in Requests : handleCreateDiaryEntryOk(r)
    \/ \E r \in Requests : handleCreateDiaryEntryFail(r)

InitNewEntry == InitApp /\ IdleCalendar /\ IdleCard /\ InitDiary /\ entriesProp = <<>>

SpecNewEntry == InitNewEntry /\ [][NextNewEntry]_vars

\* SpecDiaryModal: the modal version of DiaryView used through what it renders: each
\* MDEditor is a child of its Modal, which renders nothing while it is closed, and the
\* keydown listener exists while a modal is open
InitDiaryModal == InitDiaryView /\ diaryVersion = "modal"

NextDiaryModal ==
    \/ handleShowNewEntryModal
    \/ showNewEntryModal /\ \E value \in Texts : handleCurrentEntryChange(value)
    \/ showNewEntryModal /\ handleAddSeparator
    \/ handleSaveEntry
    \/ handleCancelNewEntry
    \/ \E entry \in Range(entriesProp) : handleEditEntry(entry)
    \/ showEditModal /\ \E value \in Texts : handleEditContentChange(value)
    \/ handleSaveEdit
    \/ handleCancelEdit
    \/ handleKeyDown

SpecDiaryModal == InitDiaryModal /\ [][NextDiaryModal]_vars

---------------------------------------------------------------------------
(* Properties of the create modals, the connection state and the loaders *)

\* a step that issues no request
NothingIssued == \A q \in BagToSet(inflight') : ~Issued(q)

\* the two modals and their drafts
ModalsAndDrafts == <<newTask, newFolder, showNewTaskModal, showNewFolderModal>>

\* C11 as stated: handleCreateTask / handleCreateFolder reset the draft to its defaults,
\* close their modal and issue the reload (getTasks / getFolders) only once the create
\* request has succeeded; the click itself and a create request that did not succeed
\* (rejected, or answered with an error status) leave the modal open and the draft as
\* the user entered it and issue no reload; Cancel / X leaves both drafts unchanged.
C11_ResetOnlyAfterSuccess ==
    [][/\ (handleCreateTask \/ handleCreateFolder)
             => /\ UNCHANGED ModalsAndDrafts
                /\ \A q \in BagToSet(inflight') :
                      Issued(q) => q.kind \in {"createTask", "createFolder"}
       /\ \A r \in Requests :
             /\ handleCreateTaskOk(r) =>
                   IF lastEvent'.outcome = "ok"
                   THEN /\ newTask' = DefaultNewTask
                        /\ ~showNewTaskModal'
                        /\ \E q \in BagToSet(inflight') : Issued(q) /\ q.kind = "getTasks"
                        /\ UNCHANGED <<newFolder, showNewFolderModal>>
                   ELSE UNCHANGED ModalsAndDrafts /\ NothingIssued
             /\ handleCreateFolderOk(r) =>
                   IF lastEvent'.outcome = "ok"
                   THEN /\ newFolder' = DefaultNewFolder
                        /\ ~showNewFolderModal'
                        /\ Issued(apiGetFolders)
                        /\ UNCHANGED <<newTask, showNewTaskModal>>
                   ELSE UNCHANGED ModalsAndDrafts /\ NothingIssued
             /\ (handleCreateTaskFail(r) \/ handleCreateFolderFail(r))
                   => UNCHANGED ModalsAndDrafts /\ NothingIssued
       /\ (setShowNewTaskModal(FALSE) \/ setShowNewFolderModal(FALSE))
             => UNCHANGED <<newTask, newFolder>>]_vars

\* C12 as stated: while backendStatus is 'checking' or 'error' no request other than
\* the health check is sent: every step that issues a getTasks, getDiaryEntries,
\* getFolders, createTask, createFolder, createDiaryEntry or updateTask request is a
\* step of (or into) the 'connected' state.
C12_NoRequestUnlessConnected ==
    [][\A q \in BagToSet(inflight') :
          (Issued(q) /\ q.kind # "healthCheck") => backendStatus' = "connected"]_vars

\* a getTasks request is in flight
TasksLoadInFlight == \E r \in Requests : r.kind = "getTasks"

\* C13 as stated: with every request answered successfully, whenever no getTasks
\* request is in flight the tasks list is the response to the request loadTasks makes
\* for the currently selected folder, whatever the order in which responses arrived.
C13_TasksOfSelectedFolder ==
    (~TasksLoadInFlight /\ tasksFrom # None)
        => tasksFrom = Some(loadTasks(selectedFolder))

\* a loadTasks or loadDiaryEntries call is awaiting its response
LoadInFlight == \E r \in Requests : r.kind \in {"getTasks", "getDiaryEntries"}

\* C14 as stated: loading is true in every state in which at least one loadTasks or
\* loadDiaryEntries request is in flight, overlapping loads included.
C14_LoadingWhileLoadInFlight == LoadInFlight => loading

\* C15: every completion of a loadTasks / loadDiaryEntries request, success or failure,
\* sets loading to false; whenever no load request is in flight loading is false (so it
\* stays false until the next load starts); and, the backend eventually completing the
\* load requests, loading = true always leads to loading = false.
C15_LoadingEventuallyFalse ==
    /\ [](~LoadInFlight => ~loading)
    /\ [][LoadCompletes => ~loading']_vars
    /\ (loading ~> ~loading)

\* C15 witness: a loadDiaryEntries request has just failed, no load is in flight any
\* more and loading is back to false
C15_Witness ==
    /\ lastEvent = Ev("loadDiaryEntries", "fail")
    /\ ~LoadInFlight
    /\ ~loading

\* C16 as stated: while the calendar view is shown and no request is in flight, the
\* tasks list passed to CalendarView is the response to the request loadTasks makes for
\* the currently selected folder ('All' included).
C16_CalendarShowsSelectedFolder ==
    (CalendarViewShown /\ inflight = EmptyBag)
        => tasksFrom = Some(loadTasks(selectedFolder))

\* C17 as stated: a response with an error status code and a JSON body is handled like
\* a failed request: the health check then sets backendStatus to 'error', and
\* createTask / createFolder leave their modal open and the draft as it was.
C17_ErrorStatusIsFailure ==
    [][lastEvent'.outcome = "error_status" =>
          /\ testConnectionOk => backendStatus' = "error"
          /\ \A r \in Requests :
                /\ handleCreateTaskOk(r)
                      => (showNewTaskModal' = showNewTaskModal /\ newTask' = newTask)
                /\ handleCreateFolderOk(r)
                      => (showNewFolderModal' = showNewFolderModal
                          /\ newFolder' = newFolder)]_vars

\* C18: a toggleTaskExpansion(taskId) step flips the membership of taskId in
\* expandedTasks and of no other id, and applied twice it gives the original set back;
\* every step that changes expandedTasks is a toggleTaskExpansion step.
C18_ExpansionFlipsOneId ==
    [][/\ \A taskId \in TaskIds :
             toggleTaskExpansion(taskId) =>
                /\ (taskId \in expandedTasks') <=> (taskId \notin expandedTasks)
                /\ \A other \in TaskIds \ {taskId} :
                      (other \in expandedTasks') <=> (other \in expandedTasks)
                /\ newExpanded(expandedTasks', taskId) = expandedTasks
       /\ expandedTasks' # expandedTasks
             => \E taskId \in TaskIds : toggleTaskExpansion(taskId)]_vars

\* C18 witness: task 2 alone is expanded, which takes a toggle of its card, and a
\* later reload has replaced the list
C18_Witness ==
    /\ expandedTasks = {2}
    /\ lastEvent = Ev("loadTasks", "ok")
    /\ Len(tasks) = MaxTasks

\* the card's task has at least one substep
HasSubstep == cardTask.substeps # None /\ DOMAIN cardTask.substeps[1] # {}

\* C19: the substeps panel is shown exactly when the card is expanded and its task has
\* at least one substep; the chevron is shown only for a task with a substep; the title
\* click is available for every task and flips the expansion; and no step of the card
\* changes the substeps (their is_completed included).
C19_PanelAndChevron ==
    /\ [](/\ SubstepsPanelShown(cardTask, isExpanded) <=> (isExpanded /\ HasSubstep)
          /\ ChevronShown(cardTask) => HasSubstep
          /\ ENABLED clickTitle)
    /\ [][/\ clickTitle => isExpanded' = ~isExpanded
          /\ cardTask'.substeps = cardTask.substeps]_vars

\* C19 witness: a task without substeps is expanded (by a click on its title) and its
\* card shows neither panel nor chevron
C19_Witness ==
    /\ isExpanded
    /\ ~HasSubstep
    /\ ~SubstepsPanelShown(cardTask, isExpanded)
    /\ ~ChevronShown(cardTask)

---------------------------------------------------------------------------
(* Properties of DiaryView *)

\* a text that is empty or holds white space only
Blank(s) == \A i \in DOMAIN s : s[i] \in Whitespace

\* the drafts a save handler of the mounted version reads
DraftsBlank ==
    IF diaryVersion = "modal"
    THEN Blank(currentEntry) /\ Blank(editContent)
    ELSE Blank(currentEntryInline) /\ Blank(editContentInline)

\* a step of one of the save handlers or keyboard shortcuts
SaveStep ==
    \/ handleSaveEntry
    \/ handleSaveEdit
    \/ handleKeyDown
    \/ handleSaveEntryInline
    \/ handleKeyDownInline
    \/ \E entry \in Range(entriesProp) : handleSaveEditInline(entry.id)

\* C20: DiaryView calls onNewEntry and onUpdateEntry only with content that is not
\* empty and has no white space at either end, and a save handler, called by a Save
\* button, by Ctrl+Enter or directly, makes no call while the drafts are empty or hold
\* white space only.
C20_CallsOnlyWithTrimmedContent ==
    /\ [](propCall # None =>
            /\ propCall[1].content # <<>>
            /\ Head(propCall[1].content) \notin Whitespace
            /\ propCall[1].content[Len(propCall[1].content)] \notin Whitespace)
    /\ [][DraftsBlank /\ SaveStep => UNCHANGED propCall]_vars

\* C20: the modal version has sent onUpdateEntry for an entry with a title, whose
\* buffer is title, line break, content and whose content ended in a blank.
C20_Witness ==
    /\ diaryVersion = "modal"
    /\ propCall = Some(onUpdateEntry(2, <<"a", "\n", "a">>))
    /\ ~showEditModal

\* the text in the new-entry editor of the mounted version
NewEntryDraft == IF diaryVersion = "modal" THEN currentEntry ELSE currentEntryInline

\* C21: the text of a new diary entry stays in the editor until the entry has been
\* created: neither the Save Entry step, which only starts the createDiaryEntry
\* request, nor the failure of that request removes it.
C21_TextKeptUntilCreated ==
    /\ [][saveNewEntry => NewEntryDraft' = NewEntryDraft]_vars
    /\ [][(\E r \in Requests : handleCreateDiaryEntryFail(r))
            => NewEntryDraft' = NewEntryDraft]_vars

\* C22: in the modal version the edit modal is open exactly when an entry is being
\* edited, and the edit buffer is empty whenever the edit modal is closed.
C22_EditModalAndEditingEntry ==
    diaryVersion = "modal" =>
        /\ showEditModal <=> editingEntry # None
        /\ ~showEditModal => editContent = <<>>

\* C22: an entry was opened, its buffer was saved with content that is not blank, and
\* the edit modal is closed again with no entry and an empty buffer.
C22_Witness ==
    /\ diaryVersion = "modal"
    /\ propCall # None
    /\ propCall[1].fn = "onUpdateEntry"
    /\ propCall[1].id = 1
    /\ ~showEditModal
    /\ editingEntry = None
    /\ editContent = <<>>

\* the buffer the edit modal should open with for an entry: its title, a line break and
\* its content, or the content alone when it has no title
TitleLineThenContent(entry) ==
    IF entry.title = <<>> THEN entry.content ELSE entry.title \o <<"\n">> \o entry.content

\* C23: opening an entry for editing loads the buffer with the title on the first line,
\* a line break and the content, or with the content alone when there is no title;
\* saving the unchanged buffer calls onUpdateEntry with the entry's id and the trimmed
\* buffer, which for an entry with a title is not the entry's content.
C23_EditBufferRoundTrip ==
    /\ [][\A entry \in Range(entriesProp) :
            handleEditEntry(entry) => editContent' = TitleLineThenContent(entry)]_vars
    /\ [][(/\ handleSaveEdit
           /\ editingEntry # None
           /\ editContent = TitleLineThenContent(editingEntry[1])
           /\ Trim(editContent) # <<>>)
            => /\ propCall' = Some(onUpdateEntry(editingEntry[1].id, Trim(editContent)))
               /\ editingEntry[1].title # <<>>
                    => propCall'[1].content # editingEntry[1].content]_vars

\* C23: entry 2, which has a title, was opened and saved unchanged: the content sent is
\* the trimmed title, line break and content.
C23_Witness ==
    /\ diaryVersion = "modal"
    /\ entriesProp # <<>>
    /\ entriesProp[2].title # <<>>
    /\ propCall = Some(onUpdateEntry(entriesProp[2].id,
                     Trim(entriesProp[2].title \o <<"\n">> \o entriesProp[2].content)))
    /\ editingEntry = None

---------------------------------------------------------------------------
(* Properties of the calendar's month navigation *)

\* the month and year the calendar's header shows
ShownMonth(date) == <<date.y, date.m>>

\* C24: the previous button shows the month before (December of the year before, from
\* January), the next button the month after (January of the year after, from
\* December), otherwise in the same year; previous then next, and next then previous,
\* show the month and year they started from, whatever the day of the starting date.
C24_MonthNavigation ==
    /\ [][previousMonth =>
            ShownMonth(currentDate') =
                IF currentDate.m = 0 THEN <<currentDate.y - 1, 11>>
                                     ELSE <<currentDate.y, currentDate.m - 1>>]_vars
    /\ [][nextMonth =>
            ShownMonth(currentDate') =
                IF currentDate.m = 11 THEN <<currentDate.y + 1, 0>>
                                      ELSE <<currentDate.y, currentDate.m + 1>>]_vars
    /\ [](LET before == NewDate(currentDate.y, currentDate.m - 1, 1)
              after == NewDate(currentDate.y, currentDate.m + 1, 1)
          IN /\ ShownMonth(NewDate(before.y, before.m + 1, 1)) = ShownMonth(currentDate)
             /\ ShownMonth(NewDate(after.y, after.m - 1, 1)) = ShownMonth(currentDate))

\* C24: the calendar was opened on a January 31st and the previous button was pressed:
\* it shows December of the year before.
C24_Witness ==
    /\ now.m = 0 /\ now.d = 31
    /\ currentDate = [y |-> now.y - 1, m |-> 11, d |-> 1]
====
